---- MODULE Spec2Model ----
(***************************************************************************)
(* Model of ndcube/mixins/plotting.py: NDCubePlotMixin.plot and the four   *)
(* strategies it dispatches to (_animate_cube_1D, _plot_3D_cube,           *)
(* _plot_2D_cube, _plot_1D_cube).                                          *)
(*                                                                         *)
(* Python values are encoded so that every comparison is well typed:       *)
(*   None                 the string "None"                                *)
(*   image_axes           [kind, v, l]: kind "None" | "int" | "list"       *)
(*   an exception         [kind |-> "error", what |-> <type>, line |-> n]  *)
(*   a returned handle    [kind |-> "handle", what |-> <callee>, line |-> 0]*)
(*   a call to a library  one record appended to calls.<callee>            *)
(* A leading underscore of a Python name is dropped.                       *)
(***************************************************************************)
EXTENDS Integers, Sequences, FiniteSets, TLC

VARIABLES cube, args, pc, sel, calls, result

vars == <<cube, args, pc, sel, calls, result>>

\* Bounds of the model.
MaxRank == 3
MaxLen == 2

None == "None"

-----------------------------------------------------------------------------
\* Python helpers.

\* seq[k] of a Python list of length n: valid for -n <= k < n.
PyIndexOk(n, k) == -n <= k /\ k < n

\* 1-based position of Python index k in a list of length n.
PyPos(n, k) == IF k < 0 THEN k + n + 1 ELSE k + 1

\* seq[::-1]
Reversed(s) == [i \in 1..Len(s) |-> s[Len(s) + 1 - i]]

\* [None] * n
NoneRange == [isNone |-> TRUE, value |-> <<>>]
SetRange(v) == [isNone |-> FALSE, value |-> v]

IntAxes(k) == [kind |-> "int", v |-> k, l |-> <<>>]
ListAxes(s) == [kind |-> "list", v |-> 0, l |-> s]
NoAxes == [kind |-> "None", v |-> 0, l |-> <<>>]

\* `not image_axes`: None, the integer 0 and the empty list are falsy.
Falsy(ia) ==
    \/ ia.kind = "None"
    \/ ia.kind = "int" /\ ia.v = 0
    \/ ia.kind = "list" /\ Len(ia.l) = 0

\* `if unit:` and `unit is not None` on a unit that is None, a Unit object
\* or a unit string; the empty string is falsy without being None.
Truthy(u) == u # None /\ u # ""
IsNone(u) == u = None

Raise(what, line) == [kind |-> "error", what |-> what, line |-> line]
Handle(what) == [kind |-> "handle", what |-> what, line |-> 0]
NoResult == [kind |-> "none", what |-> "", line |-> 0]

NoCalls ==
    [LineAnimator |-> <<>>, ImageAnimatorWCS |-> <<>>, gca_wcs |-> <<>>,
     imshow |-> <<>>, plt_plot |-> <<>>]

-----------------------------------------------------------------------------
\* The cube and its collaborators (NDCube, astropy), which plotting.py only
\* calls.

\* An array is described by its shape and the rule for its elements:
\* element i (flat, 0-based) is (seed + i) * scale.
Array(shape, seed) == [shape |-> shape, seed |-> seed, scale |-> 1]
ArrayAt(a, i) == (a.seed + i) * a.scale

\* The units of the model: "m" and "cm" are lengths, "s" is a time and ""
\* parses to the dimensionless unit.  Quantity.to converts between units of
\* the same physical type and raises UnitConversionError otherwise.
Convertible(from, to) == from = to \/ (from = "m" /\ to = "cm")

\* Conversion factor of Quantity.to for a convertible pair of units.
Factor(from, to) == IF from = to THEN 1 ELSE 100

\* Quantity.to on a sequence of coordinates: the converted quantity, or
\* `raised` when the conversion raises UnitConversionError.
CoordsTo(q, unit) ==
    IF Convertible(q.unit, unit)
    THEN [raised |-> FALSE,
          value |-> [i \in 1..Len(q.value) |-> q.value[i] * Factor(q.unit, unit)],
          unit |-> unit]
    ELSE [raised |-> TRUE, value |-> q.value, unit |-> q.unit]

\* A plain ndarray handed to the plotting library carries no unit.
RawData(c) == [raised |-> FALSE, array |-> c.data, unit |-> None]

\* (self.data * self.unit).to(unit), for a cube whose unit is not None.
DataTo(c, unit) ==
    IF Convertible(c.unit, unit)
    THEN [raised |-> FALSE,
          array |-> [c.data EXCEPT !.scale = @ * Factor(c.unit, unit)],
          unit |-> unit]
    ELSE [raised |-> TRUE, array |-> c.data, unit |-> c.unit]

\* World coordinate of pixel p along array axis a (0-based).
WorldValue(a, p) == 10 * (a + 1) + p

\* NDCube.pixel_to_world(Quantity(pixels, pix))[0]
pixel_to_world(c, pixels) ==
    [raised |-> FALSE,
     value |-> [i \in 1..Len(pixels) |-> WorldValue(0, pixels[i])],
     unit |-> "m"]

\* What NDCube.axis_world_coords may do with an axis index outside the
\* cube: raise, or return a quantity without coordinates.
OutsideLookups == {"raises", "returns"}

\* NDCube.axis_world_coords(k): the world coordinates along axis k (k may be
\* negative); for k outside the cube, what `outside` says.
axis_world_coords(c, k, outside) ==
    LET n == Len(c.data.shape)
        a == PyPos(n, k)
    IN IF PyIndexOk(n, k)
       THEN [raised |-> FALSE,
             value |-> [i \in 1..c.data.shape[a] |-> WorldValue(a - 1, i - 1)],
             unit |-> "m"]
       ELSE [raised |-> outside = "raises", value |-> <<>>, unit |-> "m"]

\* np.arange(n)
arange(n) == [i \in 1..n |-> i - 1]

ndim(c) == Len(c.data.shape)

-----------------------------------------------------------------------------
\* NDCubePlotMixin.plot: the dispatch step (lines 56-82).

\* Lines 56-57.
DefaultImageAxes == ListAxes(<<-1, -2>>)
NormalizeImageAxes(ia) == IF Falsy(ia) THEN DefaultImageAxes ELSE ia

\* Lines 58-64: int(image_axes), else the only element of a one-element
\* list, else None.  `ia` is the normalized image_axes.
PlotAxisIndex(ia) ==
    IF ia.kind = "int" THEN [isInt |-> TRUE, v |-> ia.v]
    ELSE IF Len(ia.l) = 1 THEN [isInt |-> TRUE, v |-> ia.l[1]]
    ELSE [isInt |-> FALSE, v |-> 0]

\* Lines 70-71 and the [::-1] of line 77: axis_data = ['x', 'x'];
\* axis_data[second] = 'y'.
AxisData(second) ==
    [i \in 1..2 |-> IF i = PyPos(2, second) THEN "y" ELSE "x"]

Selection(strategy, k, axes2D, error) ==
    [strategy |-> strategy, plot_axis_index |-> k, image_axes |-> axes2D,
     error |-> error]

\* The strategy plot() selects and the arguments it computes for it, or the
\* exception the dispatch step itself raises.
plot_dispatch(c, image_axes) ==
    LET ia == NormalizeImageAxes(image_axes)
        pai == PlotAxisIndex(ia)
    IN IF pai.isInt /\ ndim(c) > 1
       THEN Selection("animate_cube_1D", pai.v, <<>>, NoResult)
       ELSE IF ia.kind = "int"
       THEN Selection("none", 0, <<>>, Raise("TypeError", 71))
       ELSE IF Len(ia.l) < 2 \/ ~PyIndexOk(2, ia.l[2])
       THEN Selection("none", 0, <<>>, Raise("IndexError", 71))
       ELSE IF ndim(c) >= 3
       THEN Selection("plot_3D_cube", 0, <<>>, NoResult)
       ELSE IF ndim(c) = 2
       THEN Selection("plot_2D_cube", 0, Reversed(AxisData(ia.l[2])), NoResult)
       ELSE IF ndim(c) = 1
       THEN Selection("plot_1D_cube", 0, <<>>, NoResult)
       ELSE Selection("none", 0, <<>>, Raise("UnboundLocalError", 82))

Outcome(cs, res) == [calls |-> cs, result |-> res]

-----------------------------------------------------------------------------
\* _animate_cube_1D (lines 190-210).

\* AxisRanges with the coordinates always placed on the first axis.
AxisRangesFirstAxis(n, k, xvalue) ==
    [i \in 1..n |-> IF i = 1 THEN SetRange(xvalue) ELSE NoneRange]

\* Lines 197-198: [None] * ndim with the entry of the plot axis set.
AxisRanges(n, k, xvalue) ==
    [i \in 1..n |-> IF i = PyPos(n, k) THEN SetRange(xvalue) ELSE NoneRange]

\* animate_data without the test of self.unit: the data go on unconverted.
animate_data_unchecked(c, unit_y_axis) ==
    IF Truthy(unit_y_axis)
    THEN IF c.unit = None
         THEN [state |-> "bound", data |-> RawData(c)]
         ELSE [state |-> "bound", data |-> DataTo(c, unit_y_axis)]
    ELSE [state |-> "unbound", data |-> RawData(c)]

\* Lines 199-204: `data` is bound only inside `if unit_y_axis:`; the
\* conversion of line 204 may raise (data.raised).
animate_data(c, unit_y_axis) ==
    IF Truthy(unit_y_axis)
    THEN IF c.unit = None
         THEN [state |-> "raise", data |-> RawData(c)]
         ELSE [state |-> "bound", data |-> DataTo(c, unit_y_axis)]
    ELSE [state |-> "unbound", data |-> RawData(c)]

\* The statements in the order of the source: the lookup of line 193, the
\* conversion of lines 195-196, the list assignment of line 198 (IndexError
\* for an axis index outside the cube), then the y data.  `outside` is the
\* behaviour of the lookup for an axis index outside the cube.
animate_cube_1D(c, k, unit_x_axis, unit_y_axis, outside) ==
    LET looked == axis_world_coords(c, k, outside)
        xdata == IF Truthy(unit_x_axis) THEN CoordsTo(looked, unit_x_axis)
                 ELSE looked
        axis_ranges == AxisRanges(ndim(c), k, xdata.value)
        d == animate_data(c, unit_y_axis)
    IN IF looked.raised
       THEN Outcome(NoCalls, Raise("IndexError", 193))
       ELSE IF xdata.raised
       THEN Outcome(NoCalls, Raise("UnitConversionError", 196))
       ELSE IF ~PyIndexOk(ndim(c), k)
       THEN Outcome(NoCalls, Raise("IndexError", 198))
       ELSE IF d.state = "raise"
       THEN Outcome(NoCalls, Raise("TypeError", 201))
       ELSE IF d.state = "bound" /\ d.data.raised
       THEN Outcome(NoCalls, Raise("UnitConversionError", 204))
       ELSE IF d.state = "unbound"
       THEN Outcome(NoCalls, Raise("UnboundLocalError", 206))
       ELSE Outcome(
              [NoCalls EXCEPT !.LineAnimator =
                 <<[data |-> d.data.array,
                    plot_axis_index |-> k,
                    axis_ranges |-> axis_ranges,
                    xlabel |-> [physical_type |-> k, unit |-> unit_x_axis],
                    ylabel |-> [unit |-> unit_y_axis]]>>],
              Handle("LineAnimator"))

-----------------------------------------------------------------------------
\* _plot_3D_cube (lines 84-121).

plot_3D_cube(c, image_axes, unit_x_axis, unit_y_axis, axis_ranges) ==
    Outcome(
      [NoCalls EXCEPT !.ImageAnimatorWCS =
         <<[data |-> c.data,
            image_axes |-> NormalizeImageAxes(image_axes),
            unit_x_axis |-> unit_x_axis,
            unit_y_axis |-> unit_y_axis,
            axis_ranges |-> axis_ranges]>>],
      Handle("ImageAnimatorWCS"))

-----------------------------------------------------------------------------
\* _plot_2D_cube (lines 123-156).

SliceRole(r) == [fixed |-> FALSE, role |-> r, index |-> 0]
SliceFixed(i) == [fixed |-> TRUE, role |-> "", index |-> i]

\* MissingSlice fixing the dimension to index 0.
MissingSliceZero(i) == SliceFixed(0)

\* Lines 150-151: the entry of the i-th coordinate dimension, flagged missing.
MissingSlice(i) == SliceFixed(1)

\* Lines 144-151: the loop over enumerate(missing_axis), from position i
\* (1-based) with `index` roles handed out and slice_list = acc.
\* image_axes[index] raises IndexError once the roles are used up.
RECURSIVE SliceLoop(_, _, _, _, _)
SliceLoop(missing_axis, i, index, image_axes, acc) ==
    IF i > Len(missing_axis)
    THEN [raised |-> FALSE, slice_list |-> acc, index |-> index]
    ELSE IF ~missing_axis[i]
    THEN IF ~PyIndexOk(Len(image_axes), index)
         THEN [raised |-> TRUE, slice_list |-> acc, index |-> index]
         ELSE SliceLoop(missing_axis, i + 1, index + 1, image_axes,
                        Append(acc, SliceRole(image_axes[index + 1])))
    ELSE SliceLoop(missing_axis, i + 1, index, image_axes,
                   Append(acc, MissingSlice(i - 1)))

\* `self.wcs.naxis is not 2`, `index is not 2`: CPython keeps one object per
\* small int, so identity with the literal 2 is equality.
IsNot2(n) == n # 2

plot_2D_cube(c, axes, image_axes) ==
    LET roles == IF Len(image_axes) = 0 THEN <<"x", "y">> ELSE image_axes
        loop == SliceLoop(c.missing_axis, 1, 0, roles, <<>>)
        shown == [NoCalls EXCEPT !.imshow = <<[data |-> c.data, axes |-> axes]>>]
    IN IF ~IsNone(axes)
       THEN Outcome(shown, Handle("imshow"))
       ELSE IF ~IsNot2(c.naxis)
       THEN \* slice_list was never assigned
            Outcome(NoCalls, Raise("UnboundLocalError", 154))
       ELSE IF loop.raised
       THEN Outcome(NoCalls, Raise("IndexError", 148))
       ELSE IF IsNot2(loop.index)
       THEN Outcome(NoCalls, Raise("ValueError", 153))
       ELSE Outcome(
              [NoCalls EXCEPT
                 !.gca_wcs = <<[naxis |-> c.naxis, slices |-> loop.slice_list]>>,
                 !.imshow = <<[data |-> c.data, axes |-> "gca_wcs"]>>],
              Handle("imshow"))

-----------------------------------------------------------------------------
\* _plot_1D_cube (lines 158-188).

\* XPixels counting the pixels from 1.
XPixelsFromOne(c) == [i \in 1..c.data.shape[1] |-> i]

\* Line 173: np.arange(self.data.shape[0])
XPixels(c) == arange(c.data.shape[1])

\* Lines 176-184: the y data and the unit of the y label; `raised` is the
\* TypeError of line 181, and the conversion of line 184 may raise
\* (ydata.raised).
plot_1D_ydata(c, unit_y_axis) ==
    IF IsNone(unit_y_axis)
    THEN [raised |-> FALSE, ydata |-> RawData(c), unit |-> c.unit]
    ELSE IF c.unit = None
    THEN [raised |-> TRUE, ydata |-> RawData(c), unit |-> unit_y_axis]
    ELSE [raised |-> FALSE, ydata |-> DataTo(c, unit_y_axis), unit |-> unit_y_axis]

plot_1D_cube(c, unit_x_axis, unit_y_axis) ==
    LET looked == pixel_to_world(c, XPixels(c))
        xdata == IF ~IsNone(unit_x_axis) THEN CoordsTo(looked, unit_x_axis)
                 ELSE looked
        y == plot_1D_ydata(c, unit_y_axis)
    IN IF xdata.raised
       THEN Outcome(NoCalls, Raise("UnitConversionError", 175))
       ELSE IF y.raised
       THEN Outcome(NoCalls, Raise("TypeError", 181))
       ELSE IF y.ydata.raised
       THEN Outcome(NoCalls, Raise("UnitConversionError", 184))
       ELSE Outcome(
              [NoCalls EXCEPT !.plt_plot =
                 <<[xdata |-> xdata,
                    ydata |-> y.ydata,
                    xlabel |-> [physical_type |-> 0, unit |-> unit_x_axis],
                    ylabel |-> [unit |-> y.unit]]>>],
              Handle("plt.plot"))

-----------------------------------------------------------------------------
\* The cubes and the requests of the model.

AxisVals == (0 - MaxRank)..(MaxRank - 1)

Shapes == {[i \in 1..r |-> n + i - 1] : r \in 0..MaxRank, n \in 1..MaxLen}

MissingAxes == UNION {[1..n -> BOOLEAN] : n \in 1..MaxRank}

Cubes ==
    {[data |-> Array(s, 1), unit |-> u, naxis |-> Len(m), missing_axis |-> m] :
        s \in Shapes, u \in {None, "m"}, m \in MissingAxes}

ImageAxesInputs ==
    {NoAxes} \cup {IntAxes(k) : k \in AxisVals}
    \cup {ListAxes(s) : s \in UNION {[1..n -> AxisVals] : n \in 0..2}}

\* The requests that give image_axes as ia.
ArgsWith(ia) ==
    [axes : {None, "ax"}, image_axes : {ia},
     unit_x_axis : {None, "cm", "s"}, unit_y_axis : {None, "cm", ""},
     axis_ranges : {None, "user"}]

NoArgs ==
    [axes |-> None, image_axes |-> NoAxes, unit_x_axis |-> None,
     unit_y_axis |-> None, axis_ranges |-> None]

NoSelection == Selection("none", 0, <<>>, NoResult)

-----------------------------------------------------------------------------
\* The state machine: one call of plot() at a time on a cube that the calls
\* only read.

Init ==
    /\ cube \in Cubes
    /\ args = NoArgs
    /\ pc = "idle"
    /\ sel = NoSelection
    /\ calls = NoCalls
    /\ result = NoResult

Finish(a, s, o) ==
    /\ args' = a
    /\ sel' = s
    /\ calls' = o.calls
    /\ result' = o.result
    /\ pc' = "done"
    /\ UNCHANGED cube

\* plot() taking line 66.
PlotAnimate1D ==
    /\ pc = "idle"
    /\ \E ia \in ImageAxesInputs :
         LET s == plot_dispatch(cube, ia)
         IN /\ s.strategy = "animate_cube_1D"
            /\ \E a \in ArgsWith(ia), outside \in OutsideLookups :
                 Finish(a, s, animate_cube_1D(cube, s.plot_axis_index,
                                              a.unit_x_axis, a.unit_y_axis,
                                              outside))

\* plot() taking line 73.
Plot3D ==
    /\ pc = "idle"
    /\ \E ia \in ImageAxesInputs :
         LET s == plot_dispatch(cube, ia)
         IN /\ s.strategy = "plot_3D_cube"
            /\ \E a \in ArgsWith(ia) :
                 Finish(a, s, plot_3D_cube(cube, NormalizeImageAxes(a.image_axes),
                                         a.unit_x_axis, a.unit_y_axis,
                                         a.axis_ranges))

\* plot() taking line 77.
Plot2D ==
    /\ pc = "idle"
    /\ \E ia \in ImageAxesInputs :
         LET s == plot_dispatch(cube, ia)
         IN /\ s.strategy = "plot_2D_cube"
            /\ \E a \in ArgsWith(ia) :
                 Finish(a, s, plot_2D_cube(cube, a.axes, s.image_axes))

\* plot() taking line 80.
Plot1D ==
    /\ pc = "idle"
    /\ \E ia \in ImageAxesInputs :
         LET s == plot_dispatch(cube, ia)
         IN /\ s.strategy = "plot_1D_cube"
            /\ \E a \in ArgsWith(ia) :
                 Finish(a, s, plot_1D_cube(cube, a.unit_x_axis, a.unit_y_axis))

\* plot() raising in lines 56-82, before any strategy is entered.
PlotRaises ==
    /\ pc = "idle"
    /\ \E ia \in ImageAxesInputs :
         LET s == plot_dispatch(cube, ia)
         IN /\ s.strategy = "none"
            /\ \E a \in ArgsWith(ia) :
                 Finish(a, s, Outcome(NoCalls, s.error))

\* The call is over: its handle or exception has gone to the caller.
Return ==
    /\ pc = "done"
    /\ pc' = "idle"
    /\ args' = NoArgs
    /\ sel' = NoSelection
    /\ calls' = NoCalls
    /\ result' = NoResult
    /\ UNCHANGED cube

Next ==
    \/ PlotAnimate1D
    \/ Plot3D
    \/ Plot2D
    \/ Plot1D
    \/ PlotRaises
    \/ Return

Spec == Init /\ [][Next]_vars

-----------------------------------------------------------------------------
\* Vocabulary of the properties.

Done == pc = "done"
Rank == ndim(cube)
ValidAxis(k) == PyIndexOk(Rank, k)
Dispatched(strategy) == sel.strategy = strategy /\ sel.error.kind = "none"

\* image_axes as the caller gave it.
Omitted == args.image_axes.kind = "None"
IsScalar == args.image_axes.kind = "int"
IsListOf(n) == args.image_axes.kind = "list" /\ Len(args.image_axes.l) = n
\* The single axis the caller asked for, as a scalar or a one-element list.
SingleAxis == IF IsScalar THEN args.image_axes.v ELSE args.image_axes.l[1]
SingleAxisRequest == IsScalar \/ IsListOf(1)

UnitError ==
    /\ result.kind = "error"
    /\ result.what = "TypeError"
    /\ result.line \in {181, 201}
NoLineRendering == Len(calls.plt_plot) = 0 /\ Len(calls.LineAnimator) = 0

\* unit_y_axis is requested as the selected strategy tests it: `is None` at
\* line 176, truthiness at line 199.
YUnitRequested ==
    IF sel.strategy = "plot_1D_cube" THEN ~IsNone(args.unit_y_axis)
    ELSE Truthy(args.unit_y_axis)

\* The selected strategy converts the x coordinates: `is not None` at line
\* 174, truthiness at line 195.
XConversionMade ==
    IF sel.strategy = "plot_1D_cube" THEN ~IsNone(args.unit_x_axis)
    ELSE Truthy(args.unit_x_axis)

\* The statements before the test of self.unit (lines 180, 200) complete.
UnitTestReached ==
    /\ sel.strategy = "animate_cube_1D" => ValidAxis(sel.plot_axis_index)
    /\ XConversionMade => Convertible("m", args.unit_x_axis)

NonMissing == {i \in 1..Len(cube.missing_axis) : ~cube.missing_axis[i]}

\* Conversion factor applied to looked-up coordinates for a display unit.
XFactor(unit) == IF unit = None THEN 1 ELSE Factor("m", unit)
XUnit(unit) == IF unit = None THEN "m" ELSE unit

-----------------------------------------------------------------------------
\* C1: on a rank-1 cube plot() selects _plot_1D_cube, without raising in the
\* dispatch step, whether image_axes is omitted, a scalar axis index, a
\* one-element list or a two-element list.
C1_Rank1SelectsStatic1D ==
    (/\ Done
     /\ Rank = 1
     /\ \/ Omitted
        \/ SingleAxisRequest /\ ValidAxis(SingleAxis)
        \/ IsListOf(2))
    => Dispatched("plot_1D_cube")

\* C2: on a cube of rank >= 3 plot() selects _plot_3D_cube, without raising
\* in the dispatch step, when image_axes is omitted or is a two-element list
\* of distinct valid axis indices.
C2_Rank3SelectsAnimated2D ==
    (/\ Done
     /\ Rank >= 3
     /\ \/ Omitted
        \/ /\ IsListOf(2)
           /\ ValidAxis(args.image_axes.l[1])
           /\ ValidAxis(args.image_axes.l[2])
           /\ args.image_axes.l[1] # args.image_axes.l[2])
    => Dispatched("plot_3D_cube")

\* C3: on a cube of rank > 1, a valid axis index k given as the scalar k or
\* as the list [k] selects _animate_cube_1D with plot axis k (k = 0 and
\* negative k included), before the branch on the rank.
C3_SingleAxisSelectsAnimated1D ==
    (/\ Done
     /\ Rank > 1
     /\ SingleAxisRequest
     /\ ValidAxis(SingleAxis))
    => (Dispatched("animate_cube_1D") /\ sel.plot_axis_index = SingleAxis)

\* C4: on a rank-2 cube whose coordinate system has exactly 2 dimensions,
\* none missing, plot() without a single-axis request and without a drawing
\* surface selects _plot_2D_cube, derives the surface from the coordinate
\* system, displays the image and returns its handle.
C4_Rank2DefaultSurfaceDisplays ==
    (/\ Done
     /\ Rank = 2
     /\ cube.naxis = 2
     /\ NonMissing = {1, 2}
     /\ args.axes = None
     /\ \/ Omitted
        \/ /\ IsListOf(2)
           /\ ValidAxis(args.image_axes.l[1])
           /\ ValidAxis(args.image_axes.l[2]))
    => (/\ Dispatched("plot_2D_cube")
        /\ Len(calls.gca_wcs) = 1
        /\ Len(calls.imshow) = 1
        /\ result = Handle("imshow"))

\* C5 as claimed: whenever unit_y_axis is requested and the cube's unit is
\* None, _plot_1D_cube and _animate_cube_1D end in the "NDCube.unit is None"
\* TypeError, with neither plt.plot nor LineAnimator called.
C5_UndefinedUnitAlwaysUnitError ==
    (/\ Done
     /\ sel.strategy \in {"plot_1D_cube", "animate_cube_1D"}
     /\ Truthy(args.unit_y_axis)
     /\ cube.unit = None)
    => (UnitError /\ NoLineRendering)

\* C5 amended: with unit_y_axis requested and the cube's unit None, both
\* strategies end in an error with neither plt.plot nor LineAnimator
\* called; the error is the "NDCube.unit is None" TypeError exactly when the
\* statements before the test of self.unit complete, that is when the plot
\* axis of _animate_cube_1D is an axis of the cube and the coordinates
\* convert to unit_x_axis where that conversion is made.
C5_UndefinedUnitRaisesUnitError ==
    (/\ Done
     /\ sel.strategy \in {"plot_1D_cube", "animate_cube_1D"}
     /\ YUnitRequested
     /\ cube.unit = None)
    => (/\ NoLineRendering
        /\ result.kind = "error"
        /\ UnitError <=> UnitTestReached)

C5_Witness ==
    /\ Done
    /\ sel.strategy = "animate_cube_1D"
    /\ sel.plot_axis_index < 0
    /\ args.unit_x_axis = "cm"
    /\ YUnitRequested
    /\ cube.unit = None
    /\ UnitTestReached
    /\ UnitError

\* C6: _plot_2D_cube on a cube whose count of non-missing coordinate
\* dimensions is not 2 raises the ValueError "Dimensions of WCS and data
\* don't match" and calls neither gca_wcs nor imshow.  The claim covers
\* calls with and without a drawing surface; it is stated here for the
\* calls without one, where _plot_2D_cube does count the dimensions.
C6_DimensionMismatchRejected ==
    (/\ Done
     /\ sel.strategy = "plot_2D_cube"
     /\ args.axes = None
     /\ Cardinality(NonMissing) # 2)
    => (/\ result = Raise("ValueError", 153)
        /\ Len(calls.gca_wcs) = 0
        /\ Len(calls.imshow) = 0)

\* C7: _plot_1D_cube on a cube of length n hands plt.plot the coordinates
\* looked up for the pixels 0..n-1 (converted to unit_x_axis only if given);
\* without unit_y_axis the y data is the raw array and the y label carries
\* the cube's unit; with unit_y_axis the y data is the array converted from
\* the cube's unit.
C7_Static1DData ==
    (Done /\ sel.strategy = "plot_1D_cube")
    => LET n == cube.data.shape[1]
           ux == args.unit_x_axis
           uy == args.unit_y_axis
       IN /\ (uy = None /\ (ux = None \/ Convertible("m", ux))
                => Len(calls.plt_plot) = 1)
          /\ Len(calls.plt_plot) = 1 =>
               LET p == calls.plt_plot[1]
               IN /\ Len(p.xdata.value) = n
                  /\ \A i \in 1..n :
                        p.xdata.value[i] = WorldValue(0, i - 1) * XFactor(ux)
                  /\ p.xdata.unit = XUnit(ux)
                  /\ uy = None =>
                        /\ p.ydata.unit = None
                        /\ p.ydata.array = cube.data
                        /\ p.ylabel.unit = cube.unit
                  /\ uy # None =>
                        /\ cube.unit # None
                        /\ p.ydata.unit = uy
                        /\ p.ydata.array.shape = cube.data.shape
                        /\ \A i \in 0..(n - 1) :
                              ArrayAt(p.ydata.array, i)
                                = ArrayAt(cube.data, i) * Factor(cube.unit, uy)
                        /\ p.ylabel.unit = uy

C7_Witness ==
    /\ Done
    /\ sel.strategy = "plot_1D_cube"
    /\ Len(calls.plt_plot) = 1
    /\ cube.data.shape[1] >= 2
    /\ args.unit_x_axis # None
    /\ args.unit_y_axis = None
    /\ cube.unit # None

\* C8: _animate_cube_1D with a valid plot axis and no unit_y_axis requested
\* reaches LineAnimator with the cube's array values and returns its handle.
\* Stated for the calls whose x coordinates convert, so that nothing but the
\* handling of the y data can stand between the call and LineAnimator.
C8_Animated1DWithoutYUnitRenders ==
    (/\ Done
     /\ sel.strategy = "animate_cube_1D"
     /\ ValidAxis(sel.plot_axis_index)
     /\ args.unit_x_axis \in {None, "cm"}
     /\ ~Truthy(args.unit_y_axis))
    => (/\ result = Handle("LineAnimator")
        /\ Len(calls.LineAnimator) = 1
        /\ calls.LineAnimator[1].data = cube.data)

\* C9: whenever _animate_cube_1D calls LineAnimator for plot axis k on a
\* cube of rank r, axis_ranges has r entries, the entry of axis k (negative
\* k counted from the end) holds the world coordinates along axis k in the
\* x display unit, every other entry is None, and the axis_ranges given to
\* plot() plays no part.
C9_AxisRangesOfAnimated1D ==
    Len(calls.LineAnimator) = 1
    => LET call == calls.LineAnimator[1]
           k == call.plot_axis_index
           pos == PyPos(Rank, k)
       IN /\ k = sel.plot_axis_index
          /\ ValidAxis(k)
          /\ Len(call.axis_ranges) = Rank
          /\ \A i \in 1..Rank :
               IF i = pos
               THEN /\ ~call.axis_ranges[i].isNone
                    /\ Len(call.axis_ranges[i].value) = cube.data.shape[pos]
                    /\ \A j \in 1..cube.data.shape[pos] :
                          call.axis_ranges[i].value[j]
                            = WorldValue(pos - 1, j - 1) * XFactor(args.unit_x_axis)
               ELSE call.axis_ranges[i] = NoneRange

C9_Witness ==
    /\ Len(calls.LineAnimator) = 1
    /\ Rank >= 3
    /\ calls.LineAnimator[1].plot_axis_index = -2
    /\ args.axis_ranges = "user"
    /\ result = Handle("LineAnimator")

\* C10: whenever _plot_2D_cube derives a surface with gca_wcs, the slices
\* it passes have one entry per coordinate dimension, every missing
\* dimension is fixed to index 1, and the non-missing dimensions carry the
\* image-axis roles in order, exactly one 'x' and exactly one 'y'.
C10_SliceDescriptor ==
    Len(calls.gca_wcs) = 1
    => LET sl == calls.gca_wcs[1].slices
           nth(i) == Cardinality({j \in NonMissing : j <= i})
       IN /\ Len(sl) = cube.naxis
          /\ Len(sel.image_axes) = 2
          /\ \A i \in 1..Len(sl) :
               IF cube.missing_axis[i]
               THEN sl[i] = SliceFixed(1)
               ELSE sl[i] = SliceRole(sel.image_axes[nth(i)])
          /\ Cardinality({i \in 1..Len(sl) : sl[i] = SliceRole("x")}) = 1
          /\ Cardinality({i \in 1..Len(sl) : sl[i] = SliceRole("y")}) = 1

C10_Witness ==
    /\ Len(calls.gca_wcs) = 1
    /\ cube.missing_axis[1]
    /\ IsListOf(2)
    /\ args.image_axes.l[2] = 0
    /\ Len(calls.imshow) = 1

====
